---- MODULE Spec2Model ----
(***************************************************************************)
(* Model of the semaphore-free executor of ocrmypdf                        *)
(* (src/ocrmypdf/extra_plugins/semfree.py): the static partitioning of the *)
(* task arguments, the worker loop (process_loop), the channel protocol    *)
(* and the coordinator (LambdaExecutor._execute) with its sequential       *)
(* fallback.                                                               *)
(*                                                                         *)
(* A task argument tuple is identified with its index 0..T-1 in the        *)
(* original sequence.  Workers (processes, connections) are numbered 1..n  *)
(* in the order the coordinator creates them; group i of the source        *)
(* (0-based) is worker i+1 here.                                           *)
(***************************************************************************)
EXTENDS Integers, Sequences, FiniteSets, TLC

\* ------------------------------------------------------------------ bounds
MaxT == 3
MaxW == 2
\* The tasks of a run and the log records its workers emit are at most
\* MaxMsgs together.
MaxMsgs == 3
\* The partitioning alone is checked for more tasks and workers.
MaxPartT == 10
MaxPartW == 5

\* --------------------------------------------------------------- constants
None == -1
NoError == -2

\* The callable `task`: the value it returns for the argument tuple a.
task(a) == 10 + 3 * a
\* The exception a failing task(*args) raises, an object distinct per task.
TaskError(a) == 100 + a

\* The log records user code emits in a worker (logger name, level, message):
\* one from the initializer, one from the task.
InitRecord == [name |-> "", levelno |-> 40, msg |-> "init failed"]
TaskRecord == [name |-> "x.y", levelno |-> 30, msg |-> "page skipped"]
LogRecords == {InitRecord, TaskRecord}

VARIABLES
  T,              \* number of task argument tuples
  max_workers,    \* W
  path,           \* branch taken at the test of use_threads: "seq" or "multi"
  cpc,            \* position of the coordinator in _execute
  seqPos,         \* sequential fallback: index of the next task
  grouped_args,   \* zip_longest(*split_every(...)), with None padding
  worker_args,    \* per process: its task group (None filtered out)
  nPipes,         \* number of Pipe() calls made
  pstate,         \* per process: position in process_loop / exit state
  pos,            \* per process: 1-based position in worker_args
  chan,           \* per connection: messages sent and not yet received
  connections,    \* the coordinator's list of active connections
  ready,          \* connections returned by wait(), not yet iterated over
  startIdx,       \* next process to start
  joinIdx,        \* next process to join
  termRequested,  \* processes on which terminate() was called
  joined,         \* processes reaped by join()
  finished,       \* values passed to task_finished, in call order
  handled,        \* log records handled by the coordinator's loggers
  sent,           \* per connection: every message the worker has sent, in order
  taskFailed,     \* task indices whose invocation raised
  initFailed,     \* processes whose user_init() raised
  raised,         \* the error _execute raised, or NoError
  excReceived,    \* number of exception messages the coordinator processed
  pbar,           \* progress sink: "none", "open", "closed"
  invoked         \* per argument tuple: who has called task on it, in call order

vars == << T, max_workers, path, cpc, seqPos, grouped_args, worker_args,
           nPipes, pstate, pos, chan, connections, ready, startIdx, joinIdx,
           termRequested, joined, finished, handled, sent, taskFailed,
           initFailed, raised, excReceived, pbar, invoked >>

\* --------------------------------------------------------------- helpers
Min(a, b) == IF a < b THEN a ELSE b

\* list(task_arguments): the argument tuples 0..n-1 in order.
task_arguments(n) == [i \in 1..n |-> i - 1]

RECURSIVE split_every(_, _)
\* Chunks of n consecutive elements; the last may be shorter; stops at the
\* first empty chunk (takewhile(bool, ...)).
split_every(n, s) ==
  IF s = << >> THEN << >>
  ELSE << SubSeq(s, 1, Min(n, Len(s))) >> \o split_every(n, SubSeq(s, n + 1, Len(s)))

RECURSIVE MaxLen(_)
MaxLen(chunks) ==
  IF chunks = << >> THEN 0
  ELSE LET m == MaxLen(Tail(chunks))
       IN IF Len(Head(chunks)) > m THEN Len(Head(chunks)) ELSE m

\* Padding a short chunk with its own last element.
zip_longest_repeat(chunks) ==
  [j \in 1..MaxLen(chunks) |->
     [c \in 1..Len(chunks) |->
        IF j <= Len(chunks[c]) THEN chunks[c][j] ELSE chunks[c][Len(chunks[c])]]]

\* zip_longest(*chunks): tuple j takes the j-th element of every chunk,
\* None where the chunk is shorter.
zip_longest(chunks) ==
  [j \in 1..MaxLen(chunks) |->
     [c \in 1..Len(chunks) |-> IF j <= Len(chunks[c]) THEN chunks[c][j] ELSE None]]

NotNone(a) == a # None

\* [args for args in chunk if args is not None]
WorkerArgs(chunk) == SelectSeq(chunk, NotNone)

\* Contiguous blocks: the chunks themselves, without the transposition.
GroupedArgs_contiguous(w, t) == split_every(w, task_arguments(t))

GroupedArgs(w, t) == zip_longest(split_every(w, task_arguments(t)))

Procs == 1..Len(worker_args)

Alive == {"init", "task", "sendres", "sendexc", "complete", "close"}
Dead == {"exited", "crashed", "killed"}

\* parent_conn, child_conn = Pipe(): after the creation loop the local
\* variable child_conn still refers to the child's end of the last pipe, which
\* the coordinator never closes.
child_conn == Len(worker_args)

\* Every holder of the child's end of pipe w has closed it: the worker has
\* exited (or called conn.close()) and the coordinator holds no reference.
\* Only then does recv() on the parent's end raise EOFError.
Closed(w) == pstate[w] \in Dead /\ w # child_conn

\* wait(connections): the connections with data to read or at EOF.
Readable(c) == chan[c] # << >> \/ Closed(c)

\* Waiting on every connection created, removed ones included.
WaitResult_all == {c \in Procs : Readable(c)}

\* The connections wait(connections) returns.
WaitResult == {c \in connections : Readable(c)}

\* if use_threads and max_workers == 1
Fallback(use_threads) == use_threads /\ max_workers = 1

\* ------------------------------------------------------------------ Init
Init ==
  /\ T \in 0..MaxT
  /\ max_workers \in 1..MaxW
  /\ path = "none"
  /\ cpc = "entry"
  /\ seqPos = 0
  /\ grouped_args = << >>
  /\ worker_args = << >>
  /\ nPipes = 0
  /\ pstate = << >>
  /\ pos = << >>
  /\ chan = << >>
  /\ connections = {}
  /\ ready = {}
  /\ startIdx = 1
  /\ joinIdx = 1
  /\ termRequested = {}
  /\ joined = {}
  /\ finished = << >>
  /\ handled = << >>
  /\ sent = << >>
  /\ taskFailed = {}
  /\ initFailed = {}
  /\ raised = NoError
  /\ excReceived = 0
  /\ pbar = "none"
  /\ invoked = [a \in 0..(T - 1) |-> << >>]


\* ------------------------------------------------- sequential fallback
\* if use_threads and max_workers == 1: with self.pbar_class(...) as pbar:
EnterFallback(use_threads) ==
  /\ cpc = "entry"
  /\ Fallback(use_threads)
  /\ path' = "seq"
  /\ pbar' = "open"
  /\ cpc' = "seq"
  /\ UNCHANGED << invoked, T, max_workers, seqPos, grouped_args, worker_args,
                  nPipes, pstate, pos, chan, connections, ready, startIdx, joinIdx,
                  termRequested, joined, finished, handled, sent, taskFailed,
                  initFailed, raised, excReceived >>

\* task(*args) is called by `who` (a worker, or 0 for the coordinator itself
\* in the sequential fallback) on the argument tuple a.
Calls(who, a) == invoked' = [invoked EXCEPT ![a] = Append(@, who)]

\* Iterating from the end.
SeqArg_reversed(k) == task_arguments(T)[T - k]

\* for args in task_arguments: the argument tuple of iteration k (from 0).
SeqArg(k) == task_arguments(T)[k + 1]

\* result = task(*args); task_finished(result, pbar)
SeqTaskOk ==
  /\ cpc = "seq"
  /\ seqPos < T
  /\ Calls(0, SeqArg(seqPos))
  /\ finished' = Append(finished, task(SeqArg(seqPos)))
  /\ seqPos' = seqPos + 1
  /\ UNCHANGED << T, max_workers, path, cpc, grouped_args, worker_args,
                  nPipes, pstate, pos, chan, connections, ready, startIdx, joinIdx,
                  termRequested, joined, handled, sent, taskFailed,
                  initFailed, raised, excReceived, pbar >>

\* task(*args) raises: the error leaves the with block and _execute.
SeqTaskRaise ==
  /\ cpc = "seq"
  /\ seqPos < T
  /\ Calls(0, SeqArg(seqPos))
  /\ taskFailed' = taskFailed \cup {SeqArg(seqPos)}
  /\ raised' = TaskError(SeqArg(seqPos))
  /\ pbar' = "closed"
  /\ cpc' = "raised"
  /\ UNCHANGED << T, max_workers, path, seqPos, grouped_args, worker_args,
                  nPipes, pstate, pos, chan, connections, ready, startIdx, joinIdx,
                  termRequested, joined, finished, handled, sent,
                  initFailed, excReceived >>

\* The for loop is exhausted: leave the with block and return.
SeqReturn ==
  /\ cpc = "seq"
  /\ seqPos = T
  /\ pbar' = "closed"
  /\ cpc' = "returned"
  /\ UNCHANGED << invoked, T, max_workers, path, seqPos, grouped_args, worker_args,
                  nPipes, pstate, pos, chan, connections, ready, startIdx, joinIdx,
                  termRequested, joined, finished, handled, sent, taskFailed,
                  initFailed, raised, excReceived >>

\* ------------------------------------------------- multi-process path
\* One group per worker 1..w, empty ones included.
Groups_perWorker(w, t) ==
  [i \in 1..w |-> SelectSeq(task_arguments(t), LAMBDA a : a % w = i - 1)]

\* The groups handed to the workers: one per tuple of grouped_args.
Groups(w, t) ==
  LET g == GroupedArgs(w, t) IN [i \in 1..Len(g) |-> WorkerArgs(g[i])]

\* task_arguments = list(...); grouped_args = list(zip_longest(...));
\* if not grouped_args: return; then one Pipe() and one Process per chunk.
Partition(use_threads) ==
  /\ cpc = "entry"
  /\ ~Fallback(use_threads)
  /\ path' = "multi"
  /\ grouped_args' = GroupedArgs(max_workers, T)
  /\ LET groups == Groups(max_workers, T)
         n == Len(groups)
     IN IF n = 0
        THEN /\ cpc' = "returned"
             /\ UNCHANGED << worker_args, nPipes, pstate, pos, chan, sent, connections >>
        ELSE /\ cpc' = "start"
             /\ worker_args' = groups
             /\ nPipes' = n
             /\ pstate' = [w \in 1..n |-> "unstarted"]
             /\ pos' = [w \in 1..n |-> 1]
             /\ chan' = [w \in 1..n |-> << >>]
             /\ sent' = [w \in 1..n |-> << >>]
             /\ connections' = 1..n
  /\ UNCHANGED << invoked, T, max_workers, seqPos, ready, startIdx, joinIdx,
                  termRequested, joined, finished, handled, taskFailed,
                  initFailed, raised, excReceived, pbar >>

\* for process in processes: process.start()
StartProcess ==
  /\ cpc = "start"
  /\ startIdx <= Len(worker_args)
  /\ pstate' = [pstate EXCEPT ![startIdx] = "init"]
  /\ startIdx' = startIdx + 1
  /\ UNCHANGED << invoked, T, max_workers, path, cpc, seqPos, grouped_args,
                  worker_args, nPipes, pos, chan, connections, ready, joinIdx,
                  termRequested, joined, finished, handled, sent, taskFailed,
                  initFailed, raised, excReceived, pbar >>

\* with self.pbar_class(**progress_kwargs) as pbar:
OpenPbar ==
  /\ cpc = "start"
  /\ startIdx > Len(worker_args)
  /\ pbar' = "open"
  /\ cpc' = "loop"
  /\ UNCHANGED << invoked, T, max_workers, path, seqPos, grouped_args, worker_args,
                  nPipes, pstate, pos, chan, connections, ready, startIdx, joinIdx,
                  termRequested, joined, finished, handled, sent, taskFailed,
                  initFailed, raised, excReceived >>

\* while connections: for result in wait(connections):
\* blocks until at least one connection is readable or at EOF.
Wait ==
  /\ cpc = "loop"
  /\ ready = {}
  /\ connections # {}
  /\ WaitResult # {}
  /\ ready' = WaitResult
  /\ UNCHANGED << invoked, T, max_workers, path, cpc, seqPos, grouped_args,
                  worker_args, nPipes, pstate, pos, chan, connections, startIdx,
                  joinIdx, termRequested, joined, finished, handled, sent,
                  taskFailed, initFailed, raised, excReceived, pbar >>

\* result.recv() raises EOFError: connections.remove(result); continue
RecvEOF(c) ==
  /\ cpc = "loop"
  /\ c \in ready
  /\ chan[c] = << >>
  /\ Closed(c)
  /\ connections' = connections \ {c}
  /\ ready' = ready \ {c}
  /\ UNCHANGED << invoked, T, max_workers, path, cpc, seqPos, grouped_args,
                  worker_args, nPipes, pstate, pos, chan, startIdx, joinIdx,
                  termRequested, joined, finished, handled, sent, taskFailed,
                  initFailed, raised, excReceived, pbar >>

\* msg_type == MessageType.result: task_finished(msg, pbar)
RecvResult(c) ==
  /\ cpc = "loop"
  /\ c \in ready
  /\ chan[c] # << >>
  /\ Head(chan[c]).type = "result"
  /\ finished' = Append(finished, Head(chan[c]).msg)
  /\ chan' = [chan EXCEPT ![c] = Tail(@)]
  /\ ready' = ready \ {c}
  /\ UNCHANGED << invoked, T, max_workers, path, cpc, seqPos, grouped_args,
                  worker_args, nPipes, pstate, pos, connections, startIdx, joinIdx,
                  termRequested, joined, handled, sent, taskFailed,
                  initFailed, raised, excReceived, pbar >>

\* Handling every record with the root logger.
HandleRecord_root(record) ==
  [logger |-> "", levelno |-> record.levelno, msg |-> record.msg]

\* logger = logging.getLogger(record.name); logger.handle(record):
\* what the coordinator's logging subsystem observes for one record.
HandleRecord(record) ==
  [logger |-> record.name, levelno |-> record.levelno, msg |-> record.msg]

\* msg_type == 'log'
RecvLog(c) ==
  /\ cpc = "loop"
  /\ c \in ready
  /\ chan[c] # << >>
  /\ Head(chan[c]).type = "log"
  /\ handled' = Append(handled, HandleRecord(Head(chan[c]).msg))
  /\ chan' = [chan EXCEPT ![c] = Tail(@)]
  /\ ready' = ready \ {c}
  /\ UNCHANGED << invoked, T, max_workers, path, cpc, seqPos, grouped_args,
                  worker_args, nPipes, pstate, pos, connections, startIdx, joinIdx,
                  termRequested, joined, finished, sent, taskFailed,
                  initFailed, raised, excReceived, pbar >>

\* msg_type == MessageType.complete: connections.remove(result)
RecvComplete(c) ==
  /\ cpc = "loop"
  /\ c \in ready
  /\ chan[c] # << >>
  /\ Head(chan[c]).type = "complete"
  /\ connections' = connections \ {c}
  /\ chan' = [chan EXCEPT ![c] = Tail(@)]
  /\ ready' = ready \ {c}
  /\ UNCHANGED << invoked, T, max_workers, path, cpc, seqPos, grouped_args,
                  worker_args, nPipes, pstate, pos, startIdx, joinIdx,
                  termRequested, joined, finished, handled, sent, taskFailed,
                  initFailed, raised, excReceived, pbar >>

\* Terminating the sender only.
Terminated_senderOnly(c) == {c}

\* for process in processes: process.terminate(), on a message from c
Terminated(c) == Procs

\* msg_type == MessageType.exception: terminate the processes, raise msg.
\* The raise leaves the with block (the sink is closed) and _execute; the
\* join loop after the with block is not reached.
RecvException(c) ==
  /\ cpc = "loop"
  /\ c \in ready
  /\ chan[c] # << >>
  /\ Head(chan[c]).type = "exception"
  /\ termRequested' = termRequested \cup Terminated(c)
  /\ raised' = Head(chan[c]).msg
  /\ excReceived' = excReceived + 1
  /\ chan' = [chan EXCEPT ![c] = Tail(@)]
  /\ ready' = {}
  /\ pbar' = "closed"
  /\ cpc' = "raised"
  /\ UNCHANGED << invoked, T, max_workers, path, seqPos, grouped_args, worker_args,
                  nPipes, pstate, pos, connections, startIdx, joinIdx,
                  joined, finished, handled, sent, taskFailed, initFailed >>

\* Leaving the loop with the sink left open.
LoopExit_sinkOpen ==
  /\ cpc = "loop"
  /\ ready = {}
  /\ connections = {}
  /\ cpc' = "join"
  /\ UNCHANGED << invoked, T, max_workers, path, seqPos, grouped_args, worker_args,
                  nPipes, pstate, pos, chan, connections, ready, startIdx, joinIdx,
                  termRequested, joined, finished, handled, sent, taskFailed,
                  initFailed, raised, excReceived, pbar >>

\* `while connections` is false: leave the with block.
LoopExit ==
  /\ cpc = "loop"
  /\ ready = {}
  /\ connections = {}
  /\ pbar' = "closed"
  /\ cpc' = "join"
  /\ UNCHANGED << invoked, T, max_workers, path, seqPos, grouped_args, worker_args,
                  nPipes, pstate, pos, chan, connections, ready, startIdx, joinIdx,
                  termRequested, joined, finished, handled, sent, taskFailed,
                  initFailed, raised, excReceived >>

\* for process in processes: process.join()  -- blocks until it has exited
Join ==
  /\ cpc = "join"
  /\ joinIdx <= Len(worker_args)
  /\ pstate[joinIdx] \in Dead
  /\ joined' = joined \cup {joinIdx}
  /\ joinIdx' = joinIdx + 1
  /\ UNCHANGED << invoked, T, max_workers, path, cpc, seqPos, grouped_args,
                  worker_args, nPipes, pstate, pos, chan, connections, ready,
                  startIdx, termRequested, finished, handled, sent, taskFailed,
                  initFailed, raised, excReceived, pbar >>

\* end of _execute
Return ==
  /\ cpc = "join"
  /\ joinIdx > Len(worker_args)
  /\ cpc' = "returned"
  /\ UNCHANGED << invoked, T, max_workers, path, seqPos, grouped_args, worker_args,
                  nPipes, pstate, pos, chan, connections, ready, startIdx, joinIdx,
                  termRequested, joined, finished, handled, sent, taskFailed,
                  initFailed, raised, excReceived, pbar >>


\* ------------------------------------------------- process_loop (worker w)
\* Iterating over the group from its end.
CurArg_reversed(w) == worker_args[w][Len(worker_args[w]) + 1 - pos[w]]

\* The argument tuple the worker is at.
CurArg(w) == worker_args[w][pos[w]]

\* Leaving the loop one task early.
AfterResult_early(w) == IF pos[w] + 1 < Len(worker_args[w]) THEN "task" ELSE "complete"

\* Position of the loop after the task at pos[w] returned: the next task,
\* or the statement after the loop.
AfterResult(w) == IF pos[w] < Len(worker_args[w]) THEN "task" ELSE "complete"

\* Staying in the loop at the task that raised.
AfterException_retry(w) == "task"

\* Position of the loop after the task at pos[w] raised: break.
AfterException(w) == "complete"

\* conn.send(m) in worker w: the message joins the channel, in order.
Send(w, m) ==
  /\ chan' = [chan EXCEPT ![w] = Append(@, m)]
  /\ sent' = [sent EXCEPT ![w] = Append(@, m)]

RECURSIVE CountLogs(_)
\* The number of log messages in a sequence of messages.
CountLogs(q) ==
  IF q = << >> THEN 0
  ELSE (IF Head(q).type = "log" THEN 1 ELSE 0) + CountLogs(Tail(q))

RECURSIVE SumLogs(_)
\* The number of log messages workers 1..n have sent.
SumLogs(n) == IF n = 0 THEN 0 ELSE CountLogs(sent[n]) + SumLogs(n - 1)

\* The worker moves to `next`: if that is the body of the loop, it calls
\* task on the argument tuple at position k of its group.
Enter(w, next, k) ==
  IF next = "task" THEN Calls(w, worker_args[w][k]) ELSE UNCHANGED invoked

\* user_init() returns: enter the loop over task_args.
WorkerInitOk(w) ==
  /\ w \in Procs
  /\ pstate[w] = "init"
  /\ pstate' = [pstate EXCEPT ![w] = IF worker_args[w] = << >> THEN "complete" ELSE "task"]
  /\ Enter(w, IF worker_args[w] = << >> THEN "complete" ELSE "task", 1)
  /\ UNCHANGED << T, max_workers, path, cpc, seqPos, grouped_args,
                  worker_args, nPipes, pos, chan, connections, ready, startIdx,
                  joinIdx, termRequested, joined, finished, handled, sent,
                  taskFailed, initFailed, raised, excReceived, pbar >>

\* user_init() raises: nothing catches it, the process exits abnormally and
\* its end of the pipe is closed without a terminal message.
WorkerInitRaise(w) ==
  /\ w \in Procs
  /\ pstate[w] = "init"
  /\ pstate' = [pstate EXCEPT ![w] = "crashed"]
  /\ initFailed' = initFailed \cup {w}
  /\ UNCHANGED << invoked, T, max_workers, path, cpc, seqPos, grouped_args,
                  worker_args, nPipes, pos, chan, connections, ready, startIdx,
                  joinIdx, termRequested, joined, finished, handled, sent,
                  taskFailed, raised, excReceived, pbar >>

\* ConnectionLogHandler.enqueue: self.conn.send(('log', record))
enqueue(record) == [type |-> "log", msg |-> record]

\* A log call inside user_init() or task(): the root handler forwards it.
WorkerLog(w, record) ==
  /\ w \in Procs
  /\ pstate[w] \in {"init", "task"}
  /\ record = (IF pstate[w] = "init" THEN InitRecord ELSE TaskRecord)
  /\ T + SumLogs(Len(sent)) < MaxMsgs
  /\ Send(w, enqueue(record))
  /\ UNCHANGED << invoked, T, max_workers, path, cpc, seqPos, grouped_args,
                  worker_args, nPipes, pstate, pos, connections, ready, startIdx,
                  joinIdx, termRequested, joined, finished, handled,
                  taskFailed, initFailed, raised, excReceived, pbar >>

\* result = task(*args) returns
WorkerTaskOk(w) ==
  /\ w \in Procs
  /\ pstate[w] = "task"
  /\ pstate' = [pstate EXCEPT ![w] = "sendres"]
  /\ UNCHANGED << invoked, T, max_workers, path, cpc, seqPos, grouped_args,
                  worker_args, nPipes, pos, chan, connections, ready, startIdx,
                  joinIdx, termRequested, joined, finished, handled, sent,
                  taskFailed, initFailed, raised, excReceived, pbar >>

\* task(*args) raises: except Exception as e
WorkerTaskRaise(w) ==
  /\ w \in Procs
  /\ pstate[w] = "task"
  /\ pstate' = [pstate EXCEPT ![w] = "sendexc"]
  /\ taskFailed' = taskFailed \cup {CurArg(w)}
  /\ UNCHANGED << invoked, T, max_workers, path, cpc, seqPos, grouped_args,
                  worker_args, nPipes, pos, chan, connections, ready, startIdx,
                  joinIdx, termRequested, joined, finished, handled, sent,
                  initFailed, raised, excReceived, pbar >>

\* conn.send((MessageType.result, result)); next iteration of the loop
WorkerSendResult(w) ==
  /\ w \in Procs
  /\ pstate[w] = "sendres"
  /\ Send(w, [type |-> "result", msg |-> task(CurArg(w))])
  /\ pstate' = [pstate EXCEPT ![w] = AfterResult(w)]
  /\ pos' = [pos EXCEPT ![w] = @ + 1]
  /\ Enter(w, AfterResult(w), pos[w] + 1)
  /\ UNCHANGED << T, max_workers, path, cpc, seqPos, grouped_args,
                  worker_args, nPipes, connections, ready, startIdx,
                  joinIdx, termRequested, joined, finished, handled,
                  taskFailed, initFailed, raised, excReceived, pbar >>

\* conn.send((MessageType.exception, e)); break
WorkerSendException(w) ==
  /\ w \in Procs
  /\ pstate[w] = "sendexc"
  /\ Send(w, [type |-> "exception", msg |-> TaskError(CurArg(w))])
  /\ pstate' = [pstate EXCEPT ![w] = AfterException(w)]
  /\ Enter(w, AfterException(w), pos[w])
  /\ UNCHANGED << T, max_workers, path, cpc, seqPos, grouped_args,
                  worker_args, nPipes, pos, connections, ready, startIdx,
                  joinIdx, termRequested, joined, finished, handled,
                  taskFailed, initFailed, raised, excReceived, pbar >>

\* conn.send((MessageType.complete, None))
WorkerSendComplete(w) ==
  /\ w \in Procs
  /\ pstate[w] = "complete"
  /\ Send(w, [type |-> "complete", msg |-> None])
  /\ pstate' = [pstate EXCEPT ![w] = "close"]
  /\ UNCHANGED << invoked, T, max_workers, path, cpc, seqPos, grouped_args,
                  worker_args, nPipes, pos, connections, ready, startIdx,
                  joinIdx, termRequested, joined, finished, handled,
                  taskFailed, initFailed, raised, excReceived, pbar >>

\* conn.close(); return  -- the process exits
WorkerClose(w) ==
  /\ w \in Procs
  /\ pstate[w] = "close"
  /\ pstate' = [pstate EXCEPT ![w] = "exited"]
  /\ UNCHANGED << invoked, T, max_workers, path, cpc, seqPos, grouped_args,
                  worker_args, nPipes, pos, chan, connections, ready, startIdx,
                  joinIdx, termRequested, joined, finished, handled, sent,
                  taskFailed, initFailed, raised, excReceived, pbar >>

\* SIGTERM sent by process.terminate() reaches a live process and kills it.
Sigterm(w) ==
  /\ w \in Procs
  /\ w \in termRequested
  /\ pstate[w] \in Alive
  /\ pstate' = [pstate EXCEPT ![w] = "killed"]
  /\ UNCHANGED << invoked, T, max_workers, path, cpc, seqPos, grouped_args,
                  worker_args, nPipes, pos, chan, connections, ready, startIdx,
                  joinIdx, termRequested, joined, finished, handled, sent,
                  taskFailed, initFailed, raised, excReceived, pbar >>

\* ------------------------------------------------------------------ Next
Workers == 1..MaxW

Next ==
  \/ \E use_threads \in BOOLEAN : EnterFallback(use_threads)
  \/ SeqTaskOk
  \/ SeqTaskRaise
  \/ SeqReturn
  \/ \E use_threads \in BOOLEAN : Partition(use_threads)
  \/ StartProcess
  \/ OpenPbar
  \/ Wait
  \/ \E c \in Workers : RecvEOF(c)
  \/ \E c \in Workers : RecvResult(c)
  \/ \E c \in Workers : RecvLog(c)
  \/ \E c \in Workers : RecvComplete(c)
  \/ \E c \in Workers : RecvException(c)
  \/ LoopExit
  \/ Join
  \/ Return
  \/ \E w \in Workers : WorkerInitOk(w)
  \/ \E w \in Workers : WorkerInitRaise(w)
  \/ \E w \in Workers : \E record \in LogRecords : WorkerLog(w, record)
  \/ \E w \in Workers : WorkerTaskOk(w)
  \/ \E w \in Workers : WorkerTaskRaise(w)
  \/ \E w \in Workers : WorkerSendResult(w)
  \/ \E w \in Workers : WorkerSendException(w)
  \/ \E w \in Workers : WorkerSendComplete(w)
  \/ \E w \in Workers : WorkerClose(w)
  \/ \E w \in Workers : Sigterm(w)

Spec == Init /\ [][Next]_vars


\* ------------------------------------------- the partitioning on its own
InitPart ==
  /\ T \in 0..MaxPartT
  /\ max_workers \in 1..MaxPartW
  /\ path = "none"
  /\ cpc = "entry"
  /\ seqPos = 0
  /\ grouped_args = << >>
  /\ worker_args = << >>
  /\ nPipes = 0
  /\ pstate = << >>
  /\ pos = << >>
  /\ chan = << >>
  /\ connections = {}
  /\ ready = {}
  /\ startIdx = 1
  /\ joinIdx = 1
  /\ termRequested = {}
  /\ joined = {}
  /\ finished = << >>
  /\ handled = << >>
  /\ sent = << >>
  /\ taskFailed = {}
  /\ initFailed = {}
  /\ raised = NoError
  /\ excReceived = 0
  /\ pbar = "none"
  /\ invoked = [a \in 0..(T - 1) |-> << >>]

NextPart == \E use_threads \in BOOLEAN : Partition(use_threads)

SpecPart == InitPart /\ [][NextPart]_vars

\* ------------------------------------- a message outside the protocol
\* The receive loop takes whatever recv() returns and dispatches on its tag.
\* process_loop only ever sends the four tags above; under this second
\* specification one message with another tag arrives on a live channel, to
\* exercise the path of the if/elif chain in which no branch matches.
UnknownMsg == [type |-> "unknown", msg |-> None]

\* Some channel has carried a message with an unknown tag.
UnknownSent == \E w \in Procs : \E i \in DOMAIN sent[w] : sent[w][i].type = UnknownMsg.type

\* A message with an unknown tag joins the channel of the live worker c.
SendUnknown(c) ==
  /\ path = "multi"
  /\ cpc = "loop"
  /\ c \in connections
  /\ pstate[c] \in Alive \ {"close"}
  /\ ~UnknownSent
  /\ Send(c, UnknownMsg)
  /\ UNCHANGED << invoked, T, max_workers, path, cpc, seqPos, grouped_args,
                  worker_args, nPipes, pstate, pos, connections, ready, startIdx,
                  joinIdx, termRequested, joined, finished, handled, taskFailed,
                  initFailed, raised, excReceived, pbar >>

\* msg_type matches none of the four branches: the if/elif chain has no
\* else, nothing is done with the message and the for loop goes on.
RecvUnknown(c) ==
  /\ cpc = "loop"
  /\ c \in ready
  /\ chan[c] # << >>
  /\ Head(chan[c]).type \notin {"result", "log", "complete", "exception"}
  /\ chan' = [chan EXCEPT ![c] = Tail(@)]
  /\ ready' = ready \ {c}
  /\ UNCHANGED << invoked, T, max_workers, path, cpc, seqPos, grouped_args,
                  worker_args, nPipes, pstate, pos, connections, startIdx, joinIdx,
                  termRequested, joined, finished, handled, sent, taskFailed,
                  initFailed, raised, excReceived, pbar >>

NextUnknown ==
  \/ Next
  \/ \E c \in Workers : SendUnknown(c)
  \/ \E c \in Workers : RecvUnknown(c)

SpecUnknown == Init /\ [][NextUnknown]_vars

\* ============================================================ properties
Range(q) == {q[i] : i \in DOMAIN q}

\* The places <<w, k>> of the task groups that hold argument tuple a.
PlacesOf(a) ==
  {p \in (DOMAIN worker_args) \X (0..T) :
     p[2] \in DOMAIN worker_args[p[1]] /\ worker_args[p[1]][p[2]] = a}

\* The number of original indices congruent to i modulo max_workers.
GroupSize(i) == Cardinality({a \in 0..(T - 1) : a % max_workers = i})

C2_AllResultsDelivered ==
  (path = "multi" /\ cpc = "returned" /\ taskFailed = {} /\ initFailed = {}) =>
    /\ Len(finished) = T
    /\ \A a \in 0..(T - 1) :
         Cardinality({i \in DOMAIN finished : finished[i] = task(a)}) = 1

\* C2 witness: a clean run of two workers over the largest task count.
C2_Witness ==
  /\ path = "multi"
  /\ cpc = "returned"
  /\ taskFailed = {}
  /\ initFailed = {}
  /\ T = MaxT
  /\ Len(worker_args) >= 2
  /\ Len(finished) = T

\* C8: with an empty task sequence the multi-process path creates no
\* channel, spawns no process, never calls task_finished and returns.
C8_EmptyRun ==
  (path = "multi" /\ T = 0) =>
    /\ nPipes = 0
    /\ pstate = << >>
    /\ chan = << >>
    /\ startIdx = 1
    /\ finished = << >>
    /\ cpc = "returned"
    /\ raised = NoError

\* C8 witness: the multi-process path was taken with no task.
C8_Witness == path = "multi" /\ T = 0 /\ cpc = "returned" /\ worker_args = << >>

\* C9: the single-worker fallback creates no channel and no process, and
\* calls task_finished with the results in the input order of the arguments.
C9_FallbackInOrder ==
  path = "seq" =>
    /\ max_workers = 1
    /\ nPipes = 0
    /\ pstate = << >>
    /\ chan = << >>
    /\ finished = [k \in 1..seqPos |-> task(k - 1)]
    /\ (cpc = "returned" => seqPos = T)

\* C9 witness: the fallback returned after several tasks.
C9_Witness == path = "seq" /\ cpc = "returned" /\ Len(finished) = MaxT

\* The processes that have been started.
Started == {w \in DOMAIN pstate : pstate[w] # "unstarted"}

\* C10: min(T, W) workers are created and spawned (T of them when W > T),
\* each with a non-empty task group; no worker with an empty group exists.
C10_OnlyNonEmptyGroups ==
  path = "multi" =>
    /\ Len(worker_args) = Min(T, max_workers)
    /\ nPipes = Min(T, max_workers)
    /\ \A w \in DOMAIN worker_args : worker_args[w] # << >>
    /\ Started \subseteq 1..Min(T, max_workers)
    /\ (cpc \notin {"entry", "start"} => Started = 1..Min(T, max_workers))

\* C10 witness: more workers allowed than tasks, all processes started.
C10_Witness ==
  /\ path = "multi"
  /\ T >= 1
  /\ max_workers > T
  /\ cpc = "loop"
  /\ Cardinality(Started) = T


\* The messages of connection c the coordinator has received.
Consumed(c) == SubSeq(sent[c], 1, Len(sent[c]) - Len(chan[c]))

IsResult(m) == m.type = "result"
IsException(m) == m.type = "exception"
IsLog(m) == m.type = "log"

\* The result values worker w has sent, in order.
ResultsSent(w) == [i \in DOMAIN SelectSeq(sent[w], IsResult) |-> SelectSeq(sent[w], IsResult)[i].msg]

\* The places <<w, k>> whose task has failed.
FailedPlaces ==
  {p \in (DOMAIN worker_args) \X (1..T) :
     p[2] \in DOMAIN worker_args[p[1]] /\ worker_args[p[1]][p[2]] \in taskFailed}

Ended == cpc \in {"returned", "raised"}

\* C3 (as claimed): a worker whose initializer failed makes the run fail:
\* _execute does not return normally.
C3_InitFailureFailsRun ==
  (path = "multi" /\ initFailed # {}) => cpc # "returned"

\* C4 (as claimed): when _execute raises on an exception message, every
\* spawned process has exited and has been waited for.
C4_AllReapedWhenRaised ==
  (path = "multi" /\ cpc = "raised") =>
    \A w \in Procs : pstate[w] \in Dead /\ w \in joined

\* C5 (as claimed): the fault of every failed task is sent as an exception
\* message after exactly the results of the earlier tasks of its group, no
\* later task of the group is invoked, and the fault is raised to the caller.
C5_EveryFaultRaised ==
  path = "multi" =>
    \A p \in FailedPlaces :
      LET w == p[1]
          k == p[2]
      IN /\ ResultsSent(w) = [j \in 1..(k - 1) |-> task(worker_args[w][j])]
         /\ pos[w] = k
         /\ (pstate[w] \in Dead =>
               \E i \in DOMAIN sent[w] :
                 IsException(sent[w][i]) /\ sent[w][i].msg = TaskError(worker_args[w][k]))
         /\ (Ended => raised = TaskError(worker_args[w][k]))

\* C5 (amended): once the task at position k of a worker's group has failed,
\* the worker has sent results for exactly positions 0..k-1, invokes no
\* further task, and sends the fault as an exception message unless
\* terminate() kills it first; _execute cannot return normally, the error it
\* raises is the fault of a failed task, and it is this fault when no other
\* task of the run has failed.
C5_FaultAtPositionK ==
  path = "multi" =>
    /\ \A p \in FailedPlaces :
         LET w == p[1]
             k == p[2]
             exc == TaskError(worker_args[w][k])
         IN /\ ResultsSent(w) = [j \in 1..(k - 1) |-> task(worker_args[w][j])]
            /\ pos[w] = k
            /\ pstate[w] \notin {"init", "task", "sendres"}
            /\ Cardinality({i \in DOMAIN sent[w] : IsException(sent[w][i])}) <= 1
            /\ (pstate[w] \in {"complete", "close", "exited"} =>
                  \E i \in DOMAIN sent[w] :
                    /\ IsException(sent[w][i])
                    /\ sent[w][i].msg = exc
                    /\ \A j \in DOMAIN sent[w] : IsResult(sent[w][j]) => j < i)
            /\ (pstate[w] \notin {"complete", "close", "exited"} =>
                  pstate[w] \in {"sendexc", "killed"})
            /\ ((Ended /\ Cardinality(taskFailed) = 1) => raised = exc)
    /\ (Ended /\ taskFailed # {}) =>
         /\ cpc = "raised"
         /\ \E a \in taskFailed : raised = TaskError(a)

\* C5 witness: the second task of a group failed, after a first result, in
\* a run of two workers, and its fault was raised.
C5_Witness ==
  /\ path = "multi"
  /\ cpc = "raised"
  /\ Len(worker_args) = 2
  /\ \E p \in FailedPlaces :
       /\ p[2] = 2
       /\ raised = TaskError(worker_args[p[1]][2])
       /\ task(worker_args[p[1]][1]) \in Range(finished)

\* The exception messages the coordinator has received: <<connection, index>>.
ExceptionsReceived ==
  {q \in Procs \X (1..(MaxMsgs + 2)) :
     q[2] \in DOMAIN Consumed(q[1]) /\ IsException(Consumed(q[1])[q[2]])}

\* C6: when the coordinator raises on an exception message it has requested
\* the termination of every spawned process; the error raised is the first
\* (and only) exception message it received, also when several workers fail.
C6_TerminateAllRaiseFirst ==
  path = "multi" =>
    /\ excReceived = Cardinality(ExceptionsReceived)
    /\ excReceived <= 1
    /\ (cpc # "raised" => excReceived = 0 /\ termRequested = {} /\ raised = NoError)
    /\ (cpc = "raised" =>
          /\ termRequested = Procs
          /\ excReceived = 1
          /\ \A q \in ExceptionsReceived :
               /\ q[2] = Len(Consumed(q[1]))
               /\ raised = Consumed(q[1])[q[2]].msg)

\* C6 witness: two workers failed; one fault was raised while the other
\* exception message is still in its channel.
C6_Witness ==
  /\ path = "multi"
  /\ cpc = "raised"
  /\ Cardinality(taskFailed) >= 2
  /\ \E c \in Procs : \E i \in DOMAIN chan[c] :
       IsException(chan[c][i]) /\ chan[c][i].msg # raised

RECURSIVE CountOf(_, _)
\* The number of occurrences of x in the sequence q.
CountOf(q, x) ==
  IF q = << >> THEN 0 ELSE (IF Head(q) = x THEN 1 ELSE 0) + CountOf(Tail(q), x)

RECURSIVE CountRecord(_, _)
\* The number of log messages in q that carry the record r.
CountRecord(q, r) ==
  IF q = << >> THEN 0
  ELSE (IF IsLog(Head(q)) /\ Head(q).msg = r THEN 1 ELSE 0) + CountRecord(Tail(q), r)

RECURSIVE SumConsumed(_, _)
\* The number of times record r was received on connections 1..n.
SumConsumed(n, r) ==
  IF n = 0 THEN 0 ELSE CountRecord(Consumed(n), r) + SumConsumed(n - 1, r)

RECURSIVE CountPending(_)
\* The number of log messages still in the channels 1..n.
CountPending(n) == IF n = 0 THEN 0 ELSE CountLogs(chan[n]) + CountPending(n - 1)

SumLogs_pending == CountPending(Len(chan))

LogsPending == \E c \in Procs : \E i \in DOMAIN chan[c] : IsLog(chan[c][i])

\* C7 (as claimed): every log record a worker emits, in any run, has been
\* observed by the coordinator's logging subsystem when the run is over.
C7_EveryRecordObserved ==
  (path = "multi" /\ Ended) => ~LogsPending

\* C7 (amended): every log record the coordinator receives is handled by
\* the logger of the record's name with the record's level and message, once
\* per record received; when _execute returns normally every record the
\* workers emitted has been handled.
C7_RecordsForwarded ==
  path = "multi" =>
    /\ Len(handled) = SumLogs(Len(sent)) - SumLogs_pending
    /\ \A r \in LogRecords :
         CountOf(handled, [logger |-> r.name, levelno |-> r.levelno, msg |-> r.msg])
           = SumConsumed(Len(sent), r)
    /\ (cpc = "returned" => ~LogsPending /\ Len(handled) = SumLogs(Len(sent)))

\* C7 witness: a run of two workers returned with a record of logger "x.y"
\* handled.
C7_Witness ==
  /\ path = "multi"
  /\ cpc = "returned"
  /\ Len(worker_args) = 2
  /\ Len(handled) = 1
  /\ handled[1].logger = "x.y"
  /\ handled[1].levelno = 30


IsComplete(m) == m.type = "complete"
IsTerminal(m) == IsException(m) \/ IsComplete(m)

\* The positions of the terminal messages worker w has sent.
TerminalsSent(w) == {i \in DOMAIN sent[w] : IsTerminal(sent[w][i])}

C12_NeverBlockedForever ==
  (/\ path = "multi"
   /\ cpc = "loop"
   /\ ready = {}
   /\ connections # {}
   /\ \A w \in Procs : pstate[w] \in Dead)
  => WaitResult # {}

\* --------------------------------------------------------------- C13
\* The results the coordinator has passed to task_finished that belong to
\* the group of worker w, in the order it passed them.
FinishedOf(w) ==
  SelectSeq(finished, LAMBDA r : \E k \in DOMAIN worker_args[w] : r = task(worker_args[w][k]))

\* C13: for each worker, the coordinator calls task_finished on that
\* worker's results in the order of the tasks in the worker's group: what
\* it has delivered of the group is always a prefix of the group's results,
\* whatever the interleaving with the other workers' messages.
C13_PerChannelFifo ==
  path = "multi" =>
    \A w \in Procs :
      /\ Len(FinishedOf(w)) <= Len(worker_args[w])
      /\ \A j \in DOMAIN FinishedOf(w) : FinishedOf(w)[j] = task(worker_args[w][j])

\* Three tasks on two workers, all delivered: the two results of the first
\* worker in group order, with the second worker's result delivered before
\* both, although its task comes after the first worker's first in the input.
C13_Witness ==
  /\ path = "multi"
  /\ T = 3
  /\ Len(worker_args) = 2
  /\ finished = << task(1), task(0), task(2) >>

\* --------------------------------------------------------------- C14
\* The coordinator has received an exception message and is raising it.
Aborted == path = "multi" /\ cpc = "raised"

\* The argument tuples on which some call of task starts in this step.
NewCalls == {a \in DOMAIN invoked : invoked'[a] # invoked[a]}

\* C14 as stated: once the coordinator has received an exception message,
\* task_finished is not invoked again and no worker starts a further task.
C14_NothingAfterAbort ==
  [][Aborted => (finished' = finished /\ NewCalls = {})]_vars

\* C14: the results passed to task_finished are never revoked; once the
\* coordinator has received an exception message it stays aborted, never
\* invokes task_finished again, and has requested the termination of every
\* process; a process the signal has reached starts no further task, while
\* one it has not reached yet may still do so.
C14_AbortStands ==
  [][/\ Len(finished) <= Len(finished')
     /\ SubSeq(finished', 1, Len(finished)) = finished
     /\ Aborted =>
          /\ Aborted'
          /\ finished' = finished
          /\ termRequested = Procs
          /\ \A a \in NewCalls :
               LET w == invoked'[a][Len(invoked'[a])] IN pstate[w] \in Alive
    ]_vars

\* An aborted run in which a result had been delivered before the abort and
\* a worker was killed with tasks of its group not done.
C14_Witness ==
  /\ Aborted
  /\ finished # << >>
  /\ \E w \in Procs :
       /\ pstate[w] = "killed"
       /\ Len(ResultsSent(w)) < Len(worker_args[w])

\* --------------------------------------------------------------- C15
\* C15 as stated: the sink is open before the first worker process is
\* started, and is closed only after every spawned process has been joined.
C15_SinkBracketsPool ==
  path = "multi" =>
    /\ (Started # {} => pbar # "none")
    /\ (pbar = "closed" => joined = Procs)

\* C15: in the multi-process path the sink's scope brackets the receive
\* loop, not the pool: it is opened after every worker process has been
\* started, it is open exactly while the coordinator is in the loop, every
\* call of task_finished falls inside it, and it is closed when the loop is
\* left (normally or by the raise), before any process is joined.
C15_SinkBracketsLoop ==
  path = "multi" =>
    /\ (pbar = "open") = (cpc = "loop")
    /\ (pbar # "none" => Started = Procs)
    /\ (finished # << >> => pbar # "none")
    /\ (cpc \in {"join", "raised"} => pbar = "closed")
    /\ (joined # {} => pbar = "closed")
    /\ (cpc \in {"entry", "start"} => pbar = "none")

\* The loop has ended after a delivered result, the sink is closed, and a
\* process is still to be joined.
C15_Witness ==
  /\ path = "multi"
  /\ cpc = "join"
  /\ finished # << >>
  /\ pbar = "closed"
  /\ joined # Procs

\* --------------------------------------------------------------- C16
\* The coordinator has received a message with an unknown tag from c.
UnknownReceived(c) == \E i \in DOMAIN Consumed(c) : Consumed(c)[i].type = UnknownMsg.type

\* C16 as stated: when the coordinator has received a message whose tag is
\* none of result, exception, complete and log, it has raised an error: it
\* is not in the receive loop any more and has not returned normally.
C16_UnknownTagIsFatal ==
  path = "multi" =>
    \A c \in Procs : UnknownReceived(c) => (cpc = "raised" /\ raised # NoError)

\* --------------------------------------------------------------- C17
\* C17: in every run, aborted ones included, task is called at most once on
\* each argument tuple, and only by the worker whose group holds the tuple
\* (by the coordinator itself in the sequential fallback); a run that
\* returns without a failed task or initializer has called it exactly once
\* on every argument tuple.
C17_InvokedAtMostOnce ==
  /\ \A a \in DOMAIN invoked :
       /\ Len(invoked[a]) <= 1
       /\ \A i \in DOMAIN invoked[a] :
            LET w == invoked[a][i]
            IN  IF path = "seq" THEN w = 0
                ELSE /\ w \in Procs
                     /\ \E k \in DOMAIN worker_args[w] : worker_args[w][k] = a
  /\ (cpc = "returned" /\ taskFailed = {} /\ initFailed = {})
       => \A a \in DOMAIN invoked : Len(invoked[a]) = 1

\* An aborted run of three tasks: one was called and delivered, one was
\* called and failed, one was never called.
C17_Witness ==
  /\ path = "multi"
  /\ cpc = "raised"
  /\ T = 3
  /\ Len(finished) = 1
  /\ \E a, b \in DOMAIN invoked :
       /\ taskFailed = {a}
       /\ Len(invoked[a]) = 1
       /\ invoked[b] = << >>

\* --------------------------------------------------------------- C18
\* What holds of the active set in every state: the coordinator only reads
\* connections that are still in the set; a complete or an exception is the
\* last message it reads from a connection (so no complete is processed
\* after an exception), and a connection out of the set was removed either
\* on its complete message or at EOF with nothing left to read.
ActiveSetInv ==
  path = "multi" =>
    /\ connections \subseteq Procs
    /\ ready \subseteq connections
    /\ \A c \in Procs :
         LET q == Consumed(c)
             completes == {i \in DOMAIN q : IsComplete(q[i])}
         IN  /\ \A i \in DOMAIN q : IsTerminal(q[i]) => i = Len(q)
             /\ completes # {} => c \notin connections
             /\ c \notin connections =>
                  (completes # {} \/ (chan[c] = << >> /\ Closed(c)))

\* What holds of every step: the set never grows once created; a message
\* is read only from a connection of the set that wait() has returned; a
\* connection leaves the set for exactly one of the two causes, its
\* complete message being read or EOF being found, and, the set never
\* growing, it leaves it at most once.
ActiveSetStep ==
  path = "multi" =>
    /\ connections' \subseteq connections
    /\ \A c \in Procs :
         Len(chan'[c]) < Len(chan[c]) => (c \in connections /\ c \in ready)
    /\ \A c \in connections \ connections' :
         /\ c \in ready
         /\ (chan[c] # << >> /\ IsComplete(Head(chan[c]))) # (chan[c] = << >> /\ Closed(c))

\* C18: in the receive loop the active channel set only shrinks, each
\* channel leaves it at most once (on complete or at EOF, never both), the
\* coordinator never receives from a channel it has removed, and it never
\* processes a complete on a channel from which it received an exception.
C18_ActiveSetOnlyShrinks == [][ActiveSetStep /\ ActiveSetInv']_vars

\* The loop has ended with one connection removed on its complete message
\* and another removed at EOF, after its worker died without a message.
C18_Witness ==
  /\ path = "multi"
  /\ cpc = "join"
  /\ \E c, d \in Procs :
       /\ Consumed(c) # << >>
       /\ IsComplete(Consumed(c)[Len(Consumed(c))])
       /\ pstate[d] = "crashed"
       /\ sent[d] = << >>

\* --------------------------------------------------------------- C19
\* The result messages carrying v among those Pick(c) holds of each channel
\* c, as (channel, index) pairs.
ResultsWith(v, Pick(_)) ==
  UNION {{<< c, i >> : i \in {i \in DOMAIN Pick(c) : IsResult(Pick(c)[i]) /\ Pick(c)[i].msg = v}} :
         c \in Procs}

SentOn(c) == sent[c]

\* C19: in every run of the multi-process path, the values passed to
\* task_finished are, counted with multiplicity, exactly the result
\* messages the coordinator has read, hence a sub-multiset of the result
\* messages the workers have sent; no value is delivered twice and there
\* are never more than T invocations.
C19_FinishedFromResults ==
  path = "multi" =>
    /\ Len(finished) <= T
    /\ \A i \in DOMAIN finished :
         LET v == finished[i]
         IN  /\ CountOf(finished, v) = Cardinality(ResultsWith(v, Consumed))
             /\ ResultsWith(v, Consumed) \subseteq ResultsWith(v, SentOn)
             /\ CountOf(finished, v) = 1

\* An aborted run: a result was delivered, another result was sent but never
\* read by the coordinator.
C19_Witness ==
  /\ path = "multi"
  /\ cpc = "raised"
  /\ Len(finished) = 1
  /\ \E c \in Procs : \E i \in DOMAIN chan[c] : IsResult(chan[c][i])

\* --------------------------------------------------------------- C20
\* C20: in the sequential fallback, when the task at input position k
\* fails, task_finished has been invoked exactly on the results of the
\* tasks 0..k-1 in input order, the error of task k is what _execute
\* raises, task has been called once on each of the tuples 0..k and on no
\* later one, and the sink's scope has been left.
C20_FallbackFailure ==
  (path = "seq" /\ cpc = "raised") =>
    \E k \in 0..(T - 1) :
      /\ taskFailed = {k}
      /\ finished = [j \in 1..k |-> task(j - 1)]
      /\ raised = TaskError(k)
      /\ \A a \in 0..(T - 1) : invoked[a] = IF a <= k THEN << 0 >> ELSE << >>
      /\ pbar = "closed"

\* The second of three tasks failed in the fallback: one result delivered,
\* one task never called.
C20_Witness ==
  /\ path = "seq"
  /\ cpc = "raised"
  /\ T = 3
  /\ taskFailed = {1}
  /\ Len(finished) = 1

====
